---------------------------- MODULE Spec2Model ----------------------------
(***************************************************************************)
(* WaveFTActor (tf2rl/policies/wave_ft_actor.py): a Gaussian policy whose  *)
(* input rows are split into a kinematic slice and a force/torque time     *)
(* series.  The model keeps the actor's configuration and weights, the     *)
(* arguments and results of the last operation, and the caller's actions   *)
(* array.                                                                  *)
(*                                                                         *)
(* Tensors of float32 are sequences of fixed-point integers in units of    *)
(* 1/ONE; the argument of the squash logarithm is kept in units of         *)
(* 1/(ONE*ONE), where EPS = 1e-6 is exactly 1.                             *)
(***************************************************************************)
EXTENDS Integers, Sequences, FiniteSets

\* ------------------------------------------------------------------ bounds
MaxBatch == 2
MaxExtra == 12
MaxActionDim == 2
MaxNoise == 2
FMAX == 2000000

\* ----------------------------------------------------- program constants
LOG_SIG_CAP_MAX == 2
LOG_SIG_CAP_MIN == -20
EPS == 1
NUM_FEAT == 6

\* fixed-point unit of a float32 value
ONE == 1000
\* the result of tf.math.log on a negative argument
NaN == -2147483647

\* ------------------------------------------------------------ arithmetic
Abs(x) == IF x < 0 THEN -x ELSE x

Sign(x) == IF x < 0 THEN -1 ELSE 1

Min(a, b) == IF a < b THEN a ELSE b

Max(a, b) == IF a < b THEN b ELSE a

RECURSIVE Sum(_)
Sum(s) == IF Len(s) = 0 THEN 0 ELSE Head(s) + Sum(Tail(s))

\* a * b of two fixed-point values, saturating at FMAX
Mul(a, b) ==
    IF a = 0 \/ b = 0 THEN 0
    ELSE IF Abs(a) > (FMAX * ONE) \div Abs(b) THEN Sign(a) * Sign(b) * FMAX
    ELSE Sign(a) * Sign(b) * Min(FMAX, (Abs(a) * Abs(b) + ONE \div 2) \div ONE)

\* a / m for a fixed-point a and a whole number m # 0, rounded to nearest
Quot(a, m) == Sign(a) * Sign(m) * ((2 * Abs(a) + Abs(m)) \div (2 * Abs(m)))

\* tf.tanh at multiples of 0.5, as fixed-point values
TanhTab == <<0, 462, 762, 905, 964, 987, 995, 998, 999, 1000>>

\* tf.tanh: odd, monotone, interpolated between the table's knots, 1 from 4.5 on
Tanh(x) ==
    LET a == Abs(x)
        k == a \div 500
        f == a - 500 * k
    IN  IF k >= 9 THEN Sign(x) * ONE
        ELSE Sign(x) * (TanhTab[k + 1] + ((TanhTab[k + 2] - TanhTab[k + 1]) * f) \div 500)

\* ln of 1..10, as fixed-point values
LnTab == <<0, 693, 1099, 1386, 1609, 1792, 1946, 2079, 2197, 2303>>

\* tf.math.log of x/u (x > 0) as a fixed-point value: decade reduction, then
\* interpolation between ln 1 .. ln 10
RECURSIVE LnPos(_, _)
LnPos(x, u) ==
    IF x >= 10 * u THEN LnTab[10] + LnPos(x \div 10, u)
    ELSE IF x < u THEN LnPos(x * 10, u) - LnTab[10]
    ELSE LET k == x \div u
             f == x - k * u
         IN  LnTab[k] + ((LnTab[k + 1] - LnTab[k]) * (f \div (u \div ONE))) \div ONE

\* tf.math.log: NaN for a negative argument
Log(x, u) == IF x <= 0 THEN NaN ELSE LnPos(x, u)

\* tf.math.exp of a fixed-point value: halving/doubling by ln 2, then a cubic
RECURSIVE Exp(_)
Exp(l) ==
    IF l >= 7601 THEN FMAX
    ELSE IF l <= -7601 THEN 0
    ELSE IF l >= 693 THEN Min(FMAX, 2 * Exp(l - 693))
    ELSE IF l < 0 THEN Exp(l + 693) \div 2
    ELSE ONE + l + (l * l) \div 2000 + (l * l * l) \div 6000000

\* DiagonalGaussian's 0.5*log(2*pi) and 0.5*log(2*pi*e), as fixed-point values
HalfLog2Pi == 919
HalfLog2PiE == 1419

\* ------------------------------------------------- constructor arguments
ActionDims == 1..MaxActionDim

MaxActions == {-2, 1, 3}

\* const_std is read only under fix_std; elsewhere it keeps its default, 0.1
ConstStds == {100, 1500}

Configs ==
    { c \in [action_dim : ActionDims, max_action : MaxActions, fix_std : BOOLEAN,
             const_std : ConstStds, state_independent_std : BOOLEAN,
             squash : BOOLEAN] :
        c.fix_std \/ c.const_std = 100 }

\* The trainable variables.  Every Dense layer and the TCN are reduced to one
\* unit: kx, kf the gains of the two branches, km, mb the gain and bias of
\* L_mean, ks, sb those of L_sigma, lv the logstd variable.
Weights ==
    { [kx |-> 1, kf |-> 1, km |-> 1, mb |-> -1500, ks |-> 20, sb |-> -26000, lv |-> -500],
      [kx |-> 2, kf |-> -1, km |-> -1, mb |-> 700, ks |-> -1, sb |-> 2500, lv |-> 2600] }

\* ------------------------------------------------------------- the inputs
\* tmp = 6 + 6 + 3 + self.action_dim
Tmp(c) == 6 + 6 + 3 + c.action_dim

\* A batch of B rows and D columns whose entries are pairwise distinct.
MkStates(B, D) == [i \in 1..B |-> [j \in 1..D |-> (i - 1) * D + j]]

StateBatches(c) ==
    { MkStates(B, Tmp(c) + r) : B \in 1..MaxBatch, r \in 0..MaxExtra }

\* The draw of tf.random.normal for component j of row i, in the k-th outcome.
NoiseOf(k, i, j) == (((7 * k + 3 * i + 5 * j) % 5) - 2) * 600

Noise(k, B, A) == [i \in 1..B |-> [j \in 1..A |-> NoiseOf(k, i, j)]]

\* Actions arrays a caller may pass: B rows of A components.
ActionBases == {-2500, 300, 1800}

MkActions(b, B, A) == [i \in 1..B |-> [j \in 1..A |-> b + 250 * (i - 1) - 150 * (j - 1)]]

ArrayKinds == {"ndarray", "tensor"}

\* --------------------------------------------------------- _compute_dist
Relu(x) == IF x > 0 THEN x ELSE 0

\* states[:, :tmp]
XSlice(states, tmp) == [i \in 1..Len(states) |-> SubSeq(states[i], 1, tmp)]

FtSliceOffByOne(states, tmp) ==
    [i \in 1..Len(states) |-> SubSeq(states[i], tmp, Len(states[i]))]

\* states[:, tmp:]
FtSlice(states, tmp) ==
    [i \in 1..Len(states) |-> SubSeq(states[i], tmp + 1, Len(states[i]))]

\* ft_len = int((states.shape[1] - tmp) / 6)
FtLen(states, tmp) == (Len(states[1]) - tmp) \div NUM_FEAT

RECURSIVE Flatten(_)
Flatten(m) == IF Len(m) = 0 THEN <<>> ELSE Head(m) \o Flatten(Tail(m))

\* tf.reshape(m, (-1, ft_len, 6)): the row-major values regrouped; the number of
\* rows is inferred; it fails when the values do not fill whole rows or when
\* ft_len is 0.
Reshape(m, ft_len) ==
    LET flat == Flatten(m)
        per == ft_len * NUM_FEAT
    IN  IF per = 0 \/ Len(flat) % per # 0
        THEN [ok |-> FALSE, t |-> <<>>]
        ELSE [ok |-> TRUE,
              t |-> [r \in 1..(Len(flat) \div per) |->
                        [s \in 1..ft_len |->
                            [ch \in 1..NUM_FEAT |->
                                flat[(r - 1) * per + (s - 1) * NUM_FEAT + ch]]]]]

\* x_l1, x_l2 (relu) and x_features (linear) on one row
XFeatures(w, xs) == w.kx * Relu(Relu(Sum(xs)))

\* ft_net on one row's series
FtFeatures(w, series) == w.kf * Sum(Flatten(series))

\* l1, l2 (relu) on the concatenated features of one row
Trunk(w, xf, ff) == Relu(Relu(xf + ff))

\* out_mean (linear)
OutMean(w, f, A) == [j \in 1..A |-> w.mb + w.km * f + 300 * (j - 1)]

\* out_log_std as a Dense layer (linear)
OutLogStdDense(w, f, A) == [j \in 1..A |-> w.sb + w.ks * f]

\* out_log_std as the logstd variable
OutLogStdVar(w, A) == [j \in 1..A |-> w.lv - 100 * (j - 1)]

ClipOff(v, lo, hi) == v

\* tf.clip_by_value
ClipByValue(v, lo, hi) == [j \in 1..Len(v) |-> Max(lo, Min(hi, v[j]))]

\* the log_std of one row
LogStdRow(c, w, f) ==
    IF c.fix_std
    THEN [j \in 1..c.action_dim |-> Log(c.const_std, ONE)]
    ELSE IF c.state_independent_std
         THEN OutLogStdVar(w, c.action_dim)
         ELSE ClipByValue(OutLogStdDense(w, f, c.action_dim),
                          LOG_SIG_CAP_MIN * ONE, LOG_SIG_CAP_MAX * ONE)

NoDist(x_in, ft_ok, ft_state) ==
    [ok |-> FALSE, x_in |-> x_in, ft_ok |-> ft_ok, ft_state |-> ft_state,
     mean |-> <<>>, log_std |-> <<>>]

\* _compute_dist: the split, the two branches, the fusion and the parameters.
\* It raises when the reshape fails or when the branches disagree on the
\* number of rows (Concatenate).
ComputeDist(c, w, states) ==
    LET tmp == Tmp(c)
        x_in == XSlice(states, tmp)
        rs == Reshape(FtSlice(states, tmp), FtLen(states, tmp))
    IN  IF ~rs.ok THEN NoDist(x_in, FALSE, <<>>)
        ELSE IF Len(rs.t) # Len(x_in) THEN NoDist(x_in, TRUE, rs.t)
        ELSE LET f == [i \in 1..Len(x_in) |->
                          Trunk(w, XFeatures(w, x_in[i]), FtFeatures(w, rs.t[i]))]
             IN  [ok |-> TRUE, x_in |-> x_in, ft_ok |-> TRUE, ft_state |-> rs.t,
                  mean |-> [i \in 1..Len(x_in) |-> OutMean(w, f[i], c.action_dim)],
                  log_std |-> [i \in 1..Len(x_in) |-> LogStdRow(c, w, f[i])]]

\* ------------------------------------------------------ DiagonalGaussian
\* dist.sample on one row: mean + normal * exp(log_std)
SampleRow(mean, log_std, eps) ==
    [j \in 1..Len(mean) |-> mean[j] + Mul(eps[j], Exp(log_std[j]))]

\* dist.log_likelihood on one row
LogLikelihoodRow(x, mean, log_std) ==
    LET z == [j \in 1..Len(mean) |-> Mul(x[j] - mean[j], Exp(-log_std[j]))]
    IN  - Sum(log_std) - Sum([j \in 1..Len(mean) |-> Mul(z[j], z[j])]) \div 2
        - Len(mean) * HalfLog2Pi

\* dist.entropy on one row
EntropyRow(log_std) == Sum([j \in 1..Len(log_std) |-> log_std[j] + HalfLog2PiE])

\* ---------------------------------------------------- _squash_correction
\* a ** 2 in units of 1/(ONE*ONE), saturating at FMAX
Square(a) == IF Abs(a) * Abs(a) > FMAX * ONE THEN FMAX * ONE ELSE a * a

\* the argument of tf.math.log for one component: 1 - a^2 + EPS
LogArg(a) == ONE * ONE - Square(a) + EPS

LogArgsRow(acts) == [j \in 1..Len(acts) |-> LogArg(acts[j])]

\* tf.reduce_sum(tf.math.log(...), axis=1) on one row
SumLogs(args) ==
    IF \E j \in 1..Len(args) : Log(args[j], ONE * ONE) = NaN THEN NaN
    ELSE Sum([j \in 1..Len(args) |-> Log(args[j], ONE * ONE)])

Minus(a, b) == IF a = NaN \/ b = NaN THEN NaN ELSE a - b

SquashCorrectionAdded(logp, acts) ==
    IF SumLogs(LogArgsRow(acts)) = NaN THEN NaN ELSE logp + SumLogs(LogArgsRow(acts))

\* _squash_correction on one row: logp_pis - diff
SquashCorrection(logp, acts) == Minus(logp, SumLogs(LogArgsRow(acts)))

\* ------------------------------------------------------------ operations
\* What an operation leaves behind: its result (or ok = FALSE when it raised)
\* and what it computed on the way.
NoOut ==
    [ok |-> FALSE, actions |-> <<>>, logp |-> <<>>, mean |-> <<>>, log_std |-> <<>>,
     entropy |-> <<>>, raw |-> <<>>, sampled |-> FALSE, logargs |-> <<>>,
     ran |-> FALSE, x_in |-> <<>>, ft_ok |-> FALSE, ft_state |-> <<>>]

Raised(d) ==
    [NoOut EXCEPT !.ran = TRUE, !.x_in = d.x_in, !.ft_ok = d.ft_ok,
                  !.ft_state = d.ft_state]

RawActionsAlwaysSample(test, mean, log_std, eps) ==
    [raw |-> [i \in 1..Len(mean) |-> SampleRow(mean[i], log_std[i], eps[i])],
     sampled |-> TRUE]

\* call, lines 107-110: the mean under test, a draw of dist.sample otherwise
RawActions(test, mean, log_std, eps) ==
    IF test
    THEN [raw |-> mean, sampled |-> FALSE]
    ELSE [raw |-> [i \in 1..Len(mean) |-> SampleRow(mean[i], log_std[i], eps[i])],
          sampled |-> TRUE]

SquashActionsNoTanh(c, raw) == raw

\* call, lines 113-116: actions = tf.tanh(raw_actions) under squash
SquashActions(c, raw) ==
    IF c.squash
    THEN [i \in 1..Len(raw) |-> [j \in 1..Len(raw[i]) |-> Tanh(raw[i][j])]]
    ELSE raw

\* actions * self._max_action
Scale(acts, m) == [i \in 1..Len(acts) |-> [j \in 1..Len(acts[i]) |-> acts[i][j] * m]]

CallParamScaled(c, d) == [mean |-> Scale(d.mean, c.max_action), log_std |-> d.log_std]

\* the param dictionary call returns
CallParam(c, d) == [mean |-> d.mean, log_std |-> d.log_std]

\* call(states, test)
Call(c, w, states, test, eps) ==
    LET d == ComputeDist(c, w, states)
    IN  IF ~d.ok THEN Raised(d)
        ELSE
        LET ra == RawActions(test, d.mean, d.log_std, eps)
            ll == [i \in 1..Len(states) |->
                      LogLikelihoodRow(ra.raw[i], d.mean[i], d.log_std[i])]
            acts == SquashActions(c, ra.raw)
            param == CallParam(c, d)
        IN  [Raised(d) EXCEPT
                !.ok = TRUE,
                !.actions = Scale(acts, c.max_action),
                !.logp = IF c.squash
                         THEN [i \in 1..Len(states) |-> SquashCorrection(ll[i], acts[i])]
                         ELSE ll,
                !.mean = param.mean,
                !.log_std = param.log_std,
                !.raw = ra.raw,
                !.sampled = ra.sampled,
                !.logargs = IF c.squash
                            THEN [i \in 1..Len(states) |-> LogArgsRow(acts[i])]
                            ELSE <<>>]

\* actions / self._max_action
Divide(acts, m) ==
    [i \in 1..Len(acts) |-> [j \in 1..Len(acts[i]) |-> Quot(acts[i][j], m)]]

\* What "actions /= self._max_action" leaves in the caller's array: an ndarray
\* is divided in place, a tf.Tensor is immutable and only the local name is
\* rebound.
AfterDivide(kind, data, m) == IF kind = "ndarray" THEN Divide(data, m) ELSE data

\* compute_log_probs(states, actions)
ComputeLogProbs(c, w, states, actions) ==
    LET a == Divide(actions, c.max_action)
        d == ComputeDist(c, w, states)
    IN  IF ~d.ok THEN Raised(d)
        ELSE
        LET ll == [i \in 1..Len(states) |-> LogLikelihoodRow(a[i], d.mean[i], d.log_std[i])]
        IN  [Raised(d) EXCEPT
                !.ok = TRUE,
                !.logp = IF c.squash
                         THEN [i \in 1..Len(states) |-> SquashCorrection(ll[i], a[i])]
                         ELSE ll,
                !.mean = d.mean,
                !.log_std = d.log_std,
                !.logargs = IF c.squash
                            THEN [i \in 1..Len(states) |-> LogArgsRow(a[i])]
                            ELSE <<>>]

\* compute_entropy(states)
ComputeEntropy(c, w, states) ==
    LET d == ComputeDist(c, w, states)
    IN  IF ~d.ok THEN Raised(d)
        ELSE [Raised(d) EXCEPT
                !.ok = TRUE,
                !.entropy = [i \in 1..Len(states) |-> EntropyRow(d.log_std[i])],
                !.mean = d.mean,
                !.log_std = d.log_std]

\* ------------------------------------------------------------------ state
VARIABLES
    cfg,    \* the constructor's arguments
    wts,    \* the trainable variables
    batch,  \* the states the caller holds and passes to every operation
    op,     \* the last operation
    inp,    \* its other arguments, as they were on entry
    out,    \* its result
    arr,    \* the caller's actions array, as it is after the operation
    ref     \* the log-probabilities an earlier operation gave for that array

vars == <<cfg, wts, batch, op, inp, out, arr, ref>>

NoArr == [kind |-> "none", data |-> <<>>]

NoRef == [from |-> "none", logp |-> <<>>]

NoInp == [test |-> FALSE, actions |-> <<>>]

\* The actor as __init__ leaves it, and the batch of states its caller holds.
Init ==
    /\ cfg \in Configs
    /\ wts \in Weights
    /\ batch \in StateBatches(cfg)
    /\ op = "init"
    /\ inp = NoInp
    /\ out = NoOut
    /\ arr = NoArr
    /\ ref = NoRef

\* actions, logp, param = actor(states, test)
DoCall ==
    \E test \in BOOLEAN, k \in 1..MaxNoise :
        /\ op' = "call"
        /\ inp' = [test |-> test, actions |-> <<>>]
        /\ out' = Call(cfg, wts, batch, test, Noise(k, Len(batch), cfg.action_dim))
        /\ arr' = NoArr
        /\ ref' = NoRef
        /\ UNCHANGED <<cfg, wts, batch>>

LogProbsStep(a, kind, r) ==
    /\ op' = "compute_log_probs"
    /\ inp' = [test |-> FALSE, actions |-> a]
    /\ out' = ComputeLogProbs(cfg, wts, batch, a)
    /\ arr' = [kind |-> kind, data |-> AfterDivide(kind, a, cfg.max_action)]
    /\ ref' = r
    /\ UNCHANGED <<cfg, wts, batch>>

\* actor.compute_log_probs(states, actions) on an array the caller made
DoLogProbs ==
    \E b \in ActionBases, kind \in ArrayKinds :
        LogProbsStep(MkActions(b, Len(batch), cfg.action_dim), kind, NoRef)

\* actor.compute_log_probs(states, actions) on the actions call just returned
DoRoundTrip ==
    /\ op = "call"
    /\ out.ok
    /\ \E kind \in ArrayKinds :
        LogProbsStep(out.actions, kind, [from |-> "call", logp |-> out.logp])

\* actor.compute_log_probs(states, actions) once more on the same array
DoLogProbsAgain ==
    /\ op = "compute_log_probs"
    /\ out.ok
    /\ ref.from # "again"
    /\ LogProbsStep(arr.data, arr.kind, [from |-> "again", logp |-> out.logp])

\* actor.compute_entropy(states)
DoEntropy ==
    /\ op' = "compute_entropy"
    /\ inp' = NoInp
    /\ out' = ComputeEntropy(cfg, wts, batch)
    /\ arr' = NoArr
    /\ ref' = NoRef
    /\ UNCHANGED <<cfg, wts, batch>>

Next == DoCall \/ DoLogProbs \/ DoRoundTrip \/ DoLogProbsAgain \/ DoEntropy

Spec == Init /\ [][Next]_vars
\* ------------------------------------------------------------ the claims
Rows == 1..Len(batch)

Comps == 1..cfg.action_dim

\* the distribution _compute_dist gives for the caller's batch
Dist == ComputeDist(cfg, wts, batch)

\* the columns of a row after the first tmp
Extra == Len(batch[1]) - Tmp(cfg)

\* C1: under test=True call never draws from dist.sample, the raw action is the
\* distribution mean, the returned action is mean*max_action (tanh(mean)*
\* max_action under squash), and the whole result is the same whatever
\* tf.random.normal would have drawn; a draw happens in call with test=False
\* and nowhere else.
C1_TestModeDeterministic ==
    /\ (op = "call" /\ out.ok /\ inp.test) =>
          /\ ~out.sampled
          /\ out.raw = Dist.mean
          /\ \A i \in Rows, j \in Comps :
                out.actions[i][j] =
                    (IF cfg.squash THEN Tanh(Dist.mean[i][j]) ELSE Dist.mean[i][j])
                        * cfg.max_action
          /\ \A k \in 1..(MaxNoise + 1) :
                Call(cfg, wts, batch, TRUE, Noise(k, Len(batch), cfg.action_dim)) = out
    /\ out.sampled => (op = "call" /\ ~inp.test)
    /\ (op = "call" /\ out.ok /\ ~inp.test) => out.sampled

\* a test call under squash whose result a sampling call would not have given
C1_Witness ==
    /\ op = "call" /\ out.ok /\ inp.test /\ cfg.squash
    /\ \E k \in 1..MaxNoise :
          Call(cfg, wts, batch, FALSE, Noise(k, Len(batch), cfg.action_dim)).actions
              # out.actions

\* C2: under squash every component of every action call returns is at most
\* |max_action| in absolute value, with test on or off; without squash the
\* action is exactly raw_action*max_action.
C2_BoundedActions ==
    (op = "call" /\ out.ok) =>
        \A i \in Rows, j \in Comps :
            IF cfg.squash
            THEN Abs(out.actions[i][j]) <= Abs(cfg.max_action) * ONE
            ELSE out.actions[i][j] = out.raw[i][j] * cfg.max_action

\* a sampling call under squash with a raw action outside [-1, 1]
C2_Witness ==
    /\ op = "call" /\ out.ok /\ ~inp.test /\ cfg.squash
    /\ \E i \in Rows, j \in Comps : Abs(out.raw[i][j]) > ONE

\* C3: under squash the log-probability call returns is the Gaussian
\* log-likelihood of the raw action minus the sum over the action dimensions of
\* log(1 - tanh(raw)^2 + EPS); without squash it is the log-likelihood alone.
C3_ChangeOfVariables ==
    (op = "call" /\ out.ok) =>
        \A i \in Rows :
            out.logp[i] =
                LogLikelihoodRow(out.raw[i], Dist.mean[i], Dist.log_std[i])
                - (IF cfg.squash
                   THEN Sum([j \in Comps |->
                                Log(ONE * ONE - Tanh(out.raw[i][j]) * Tanh(out.raw[i][j]) + EPS,
                                    ONE * ONE)])
                   ELSE 0)

\* a squashing call whose correction term is not zero
C3_Witness ==
    /\ op = "call" /\ out.ok /\ cfg.squash
    /\ \E i \in Rows :
          out.logp[i] # LogLikelihoodRow(out.raw[i], Dist.mean[i], Dist.log_std[i])

\* the split of the batch is a partition: the first tmp columns of each row go
\* to the feed-forward branch, the rest of each row is that row's series
IsPartition ==
    /\ out.x_in = [i \in Rows |-> [j \in 1..Tmp(cfg) |-> batch[i][j]]]
    /\ out.ft_ok
    /\ Len(out.ft_state) = Len(batch)
    /\ \A i \in Rows :
          /\ Len(out.ft_state[i]) * NUM_FEAT = Extra
          /\ \A s \in 1..Len(out.ft_state[i]), ch \in 1..NUM_FEAT :
                out.ft_state[i][s][ch] = batch[i][Tmp(cfg) + (s - 1) * NUM_FEAT + ch]

\* C4 as stated: for every batch of width D >= tmp, _compute_dist splits each
\* row into its first tmp columns and its own series of (D - tmp)/6 steps.
C4_SplitEveryWidth == out.ran => IsPartition

\* C4 as amended: the split is a partition when D - tmp is a positive multiple
\* of 6; for every other width D >= tmp _compute_dist raises.
C4_SplitWholeSteps ==
    out.ran =>
        IF Extra > 0 /\ Extra % NUM_FEAT = 0
        THEN IsPartition
        ELSE ~out.ok

\* two rows, each with a series of two steps
C4_Witness ==
    /\ out.ran /\ out.ok
    /\ Len(batch) = 2
    /\ Extra = 2 * NUM_FEAT
    /\ Len(out.ft_state[2]) = 2

\* C5: compute_log_probs gives the actions call returned the log-probability
\* call returned with them.
C5_RoundTrip ==
    (op = "compute_log_probs" /\ out.ok /\ ref.from = "call") => out.logp = ref.logp

\* C6: the argument of the logarithm in _squash_correction is never negative.
C6_LogArgNonNegative ==
    \A i \in 1..Len(out.logargs) : \A j \in 1..Len(out.logargs[i]) :
        out.logargs[i][j] >= 0

C8_ArgumentUnchanged ==
    /\ (op = "compute_log_probs" /\ out.ok) => arr.data = inp.actions
    /\ (op = "compute_log_probs" /\ out.ok /\ ref.from = "again") => out.logp = ref.logp

\* C9: the param call returns is the mean and log_std of _compute_dist, the
\* same for every squash, max_action and test; compute_entropy is the entropy
\* of that Gaussian, the same for every squash and max_action.
C9_RawParameters ==
    /\ (op = "call" /\ out.ok) =>
          /\ out.mean = Dist.mean
          /\ out.log_std = Dist.log_std
          /\ \A sq \in BOOLEAN, m \in MaxActions, k \in 1..MaxNoise :
                LET o == Call([cfg EXCEPT !.squash = sq, !.max_action = m], wts, batch,
                              ~inp.test, Noise(k, Len(batch), cfg.action_dim))
                IN  o.mean = out.mean /\ o.log_std = out.log_std
    /\ (op = "compute_entropy" /\ out.ok) =>
          /\ \A i \in Rows :
                out.entropy[i] = EntropyRow(Dist.log_std[i])
          /\ \A sq \in BOOLEAN, m \in MaxActions :
                ComputeEntropy([cfg EXCEPT !.squash = sq, !.max_action = m], wts, batch)
                    = out

\* a squashing, scaling call whose returned mean is not its returned action
C9_Witness ==
    /\ op = "call" /\ out.ok /\ inp.test /\ cfg.squash /\ cfg.max_action = 3
    /\ out.mean # out.actions
    /\ \E i \in Rows, j \in Comps : Abs(out.mean[i][j]) > ONE
==========================================================================
